---- MODULE Spec2Model ----
(***************************************************************************)
(* YTDLP-Search-API: the relevance scorer (search-ytdlp/helpers.ts), the   *)
(* worker fan-out and join (search-ytdlp/main.ts), the command line entry  *)
(* points (search-ytdlp/cli.ts and index.ts) and the HTTP entry point with *)
(* its response cache (search-ytdlp/api.ts).                               *)
(*                                                                         *)
(* Texts are sequences of one-character strings.  Scores are exact         *)
(* rationals held as integers over a common denominator (floating-point    *)
(* rounding is not modelled); NaN is a numerator of its own.                *)
(***************************************************************************)
EXTENDS Integers, Sequences, FiniteSets, TLC

VARIABLES files, runs, cache, now, requestCount, call

vars == <<files, runs, cache, now, requestCount, call>>

(***************************************************************************)
(* Bounds of the model.                                                    *)
(***************************************************************************)
\* the longest directory listing
MaxFiles == 3
\* the largest worker count a caller asks for
MaxWorkers == 3
\* the largest result limit a caller asks for
MaxLimit == 2
\* the number of HTTP requests the server receives
MaxRequests == 2
\* the number of clock ticks
MaxTicks == 1
\* the number of requests for one search, with and without `escape`
MaxLookups == 3

(***************************************************************************)
(* Characters and texts.                                                   *)
(***************************************************************************)
\* the numerator that stands for NaN (a score that is a number is never negative)
NaN == 0 - 1

Max(a, b) == IF a >= b THEN a ELSE b

Min(a, b) == IF a <= b THEN a ELSE b

\* String.prototype.toLowerCase on one character
LowerChar(c) == CASE c = "A" -> "a" [] c = "B" -> "b" [] c = "C" -> "c" [] OTHER -> c

\* the regular expression class \w: letters, digits and the underscore
IsWordChar(c) == c \in {"a", "b", "c", "A", "B", "C", "0", "1", "_"}

\* the regular expression class \s
IsSpaceChar(c) == c \in {" ", "\t"}

toLowerCase(text) == [i \in 1..Len(text) |-> LowerChar(text[i])]

RECURSIVE TrimStart(_)
TrimStart(text) ==
    IF text # <<>> /\ IsSpaceChar(Head(text)) THEN TrimStart(Tail(text)) ELSE text

RECURSIVE TrimEnd(_)
TrimEnd(text) ==
    IF text # <<>> /\ IsSpaceChar(text[Len(text)])
    THEN TrimEnd(SubSeq(text, 1, Len(text) - 1))
    ELSE text

\* String.prototype.trim
trim(text) == TrimEnd(TrimStart(text))

\* replace(/[^\w\s]/g, '')
RemoveSpecial(text) == SelectSeq(text, LAMBDA c : IsWordChar(c) \/ IsSpaceChar(c))

\* replace(/\s+/g, ' ')
RECURSIVE CollapseSpaces(_)
CollapseSpaces(text) ==
    IF text = <<>> THEN <<>>
    ELSE IF IsSpaceChar(Head(text))
         THEN <<" ">> \o CollapseSpaces(TrimStart(text))
         ELSE <<Head(text)>> \o CollapseSpaces(Tail(text))

normalizeText(text) == trim(CollapseSpaces(RemoveSpecial(toLowerCase(text))))

\* String.prototype.includes
Includes(text, part) ==
    \E i \in 1..(Len(text) - Len(part) + 1) : SubSeq(text, i, i + Len(part) - 1) = part

\* Array.prototype.join(' ')
RECURSIVE JoinSpace(_)
JoinSpace(parts) ==
    IF parts = <<>> THEN <<>>
    ELSE IF Len(parts) = 1 THEN Head(parts)
    ELSE Head(parts) \o <<" ">> \o JoinSpace(Tail(parts))

(***************************************************************************)
(* Numbers: an integer numerator over the common denominator, or NaN.      *)
(***************************************************************************)
NumAdd(x, y) == IF x = NaN \/ y = NaN THEN NaN ELSE x + y

NumMul(k, x) == IF x = NaN THEN NaN ELSE k * x

\* the numerator that stands for -Infinity
NegativeInfinity == 0 - 2

\* Math.min(a, b)
MathMin(a, b) ==
    IF a = NaN \/ b = NaN THEN NaN
    ELSE IF a = NegativeInfinity \/ b = NegativeInfinity THEN NegativeInfinity
    ELSE Min(a, b)

\* Math.max(a, b)
MathMax(a, b) ==
    IF a = NaN \/ b = NaN THEN NaN
    ELSE IF a = NegativeInfinity THEN b
    ELSE IF b = NegativeInfinity THEN a
    ELSE Max(a, b)

\* the bits of the mantissa and of the fraction of a logarithm
MantissaBits == 14

FractionBits == 10

RECURSIVE Pow2(_)
Pow2(n) == IF n = 0 THEN 1 ELSE 2 * Pow2(n - 1)

\* the exponent of the highest power of 2 that is not above n, for n >= 1
RECURSIVE FloorLog2(_)
FloorLog2(n) == IF n < 2 THEN 0 ELSE 1 + FloorLog2(n \div 2)

\* the fraction of the binary logarithm of a mantissa m in [1, 2), bit by bit:
\* squaring the mantissa doubles its logarithm
RECURSIVE LogFraction(_, _, _)
LogFraction(m, bits, acc) ==
    IF bits = 0 THEN acc
    ELSE LET square == (m * m) \div Pow2(MantissaBits)
         IN  IF square >= Pow2(MantissaBits + 1)
             THEN LogFraction(square \div 2, bits - 1, 2 * acc + 1)
             ELSE LogFraction(square, bits - 1, 2 * acc)

\* Math.log(x), in units of ln 2 / 2^FractionBits: NaN below 0, -Infinity at 0
MathLog(x) ==
    IF x < 0 THEN NaN
    ELSE IF x = 0 THEN NegativeInfinity
    ELSE LET exponent == FloorLog2(x)
             mantissa == (x * Pow2(MantissaBits)) \div Pow2(exponent)
         IN  exponent * Pow2(FractionBits) + LogFraction(mantissa, FractionBits, 0)

(***************************************************************************)
(* The directory: metadata files (one record each), a file that is not     *)
(* valid JSON, and a media file.  A record's `absent` names the optional   *)
(* fields the file does not have; `fuse` is the similarity (in percent)    *)
(* the fuzzy engine gives the record when it matches.                      *)
(***************************************************************************)
Catalogue ==
    [ f1 |-> [id |-> "1", title |-> <<"A", "b">>, description |-> <<"a", " ", "a", "b">>,
              tags |-> << <<"c">> >>, uploader |-> <<"a", "b">>, absent |-> {}, fuse |-> 90],
      f2 |-> [id |-> "2", title |-> <<"b">>, description |-> <<>>,
              tags |-> <<>>, uploader |-> <<"c">>, absent |-> {"description", "tags"}, fuse |-> 50],
      f3 |-> [id |-> "3", title |-> <<"a", "!">>, description |-> <<"a">>,
              tags |-> << <<"c">> >>, uploader |-> <<"b">>, absent |-> {}, fuse |-> 50] ]

\* the directory entries in the order readdirSync lists them
FileNames == <<"f1", "f2", "f3", "f9", "m1">>

\* entries whose name ends with .json
JsonNames == {"f1", "f2", "f3", "f9"}

\* .json entries whose content JSON.parse accepts
ValidNames == DOMAIN Catalogue

Queries == { <<"a", "b">>, <<"!">> }

\* the queries of the direct calls of the helpers: those of the searches, one
\* letter, blank ones, and a longer one
SampleQueries == Queries \cup {<<"a">>, <<" ">>, <<>>, <<"a", "b", "c", "a", "b">>}

\* the records of the direct calls of the helpers: those of the directory, a
\* record without any optional field, a record with a blank title and several
\* tags, and four records around the longer query: two that do not have it in
\* the title (6 in no field, 9 in the description) and are not credited by the
\* fuzzy engine, two that have it in a long text (7 in a tag, 8 in the title)
\* and get the fuzzy engine's best score
SampleRecords ==
    {Catalogue[f] : f \in DOMAIN Catalogue}
    \cup { [id |-> "4", title |-> <<>>, description |-> <<>>, tags |-> <<>>, uploader |-> <<>>,
            absent |-> {"title", "description", "tags", "uploader"}, fuse |-> 50],
          [id |-> "5", title |-> <<" ">>, description |-> <<"a", "b", "c">>,
           tags |-> << <<"a">>, <<"b">> >>, uploader |-> <<"A", "B">>, absent |-> {}, fuse |-> 90],
          [id |-> "6", title |-> <<"a", "b", "c", "a", "a">>,
           description |-> <<"a", "b", "c", "a", "a">>,
           tags |-> << <<"a", "b", "c", "a", "a">> >>, uploader |-> <<>>,
           absent |-> {"uploader"}, fuse |-> 0],
          [id |-> "7", title |-> <<>>, description |-> <<>>,
           tags |-> << <<"c", "c", "c", "c", "c", "c", "c", "c", "c", "c",
                         "a", "b", "c", "a", "b">> >>,
           uploader |-> <<>>, absent |-> {"title", "description", "uploader"}, fuse |-> 100],
          [id |-> "8", title |-> <<"a", "b", "c", "a", "b", "c", "c", "c", "c", "c", "c",
                                   "c", "c", "c", "c", "c">>,
           description |-> <<>>, tags |-> <<>>, uploader |-> <<>>,
           absent |-> {"description", "tags", "uploader"}, fuse |-> 100],
          [id |-> "9", title |-> <<"a", "b", "c", "a", "a">>,
           description |-> <<"a", "b", "c", "a", "b">>,
           tags |-> << <<"a", "b", "c", "a", "a">> >>, uploader |-> <<>>,
           absent |-> {"uploader"}, fuse |-> 0] }

RECURSIVE SetMax(_)
SetMax(S) ==
    IF S = {} THEN 0
    ELSE LET x == CHOOSE y \in S : TRUE IN Max(x, SetMax(S \ {x}))

MaxTextLen ==
    SetMax({Len(q) : q \in SampleQueries}
           \cup UNION { {Len(x.title), Len(x.description), Len(JoinSpace(x.tags)), Len(x.uploader)}
                        : x \in SampleRecords })

RECURSIVE Gcd(_, _)
Gcd(a, b) == IF b = 0 THEN a ELSE Gcd(b, a % b)

RECURSIVE LcmUpTo(_)
LcmUpTo(n) == IF n <= 1 THEN 1 ELSE LET l == LcmUpTo(n - 1) IN (l * n) \div Gcd(l, n)

\* the common denominator of every quotient of two text lengths
Scale == LcmUpTo(MaxTextLen)

\* the JavaScript quotient x / y of two lengths; the code divides by a zero
\* length only when the dividend is zero too, and 0 / 0 is NaN
Quotient(x, y) == IF y = 0 THEN NaN ELSE (x * Scale) \div y

(***************************************************************************)
(* String-distance primitives.                                             *)
(***************************************************************************)
\* one row of the edit-distance table: prev is the row of a[1..i-1], c = a[i]
RECURSIVE LevRow(_, _, _, _)
LevRow(prev, c, b, row) ==
    LET j == Len(row) IN
    IF j = Len(b) + 1 THEN row
    ELSE LevRow(prev, c, b,
                Append(row, Min(Min(prev[j + 1] + 1, row[j] + 1),
                                prev[j] + (IF b[j] = c THEN 0 ELSE 1))))

RECURSIVE LevRows(_, _, _)
LevRows(prev, a, b) ==
    IF a = <<>> THEN prev
    ELSE LevRows(LevRow(prev, Head(a), b, <<prev[1] + 1>>), Tail(a), b)

\* natural.LevenshteinDistance with its default costs
LevenshteinDistance(a, b) == LevRows([j \in 1..(Len(b) + 1) |-> j - 1], a, b)[Len(b) + 1]

computeLevenshteinSimilarity(a, b) ==
    LET distance == LevenshteinDistance(a, b)
        maxLength == Max(Len(a), Len(b))
    IN  Quotient(maxLength - distance, maxLength)

\* the SoundEx digit of a letter ("" for a letter that has none)
SoundexDigit(c) == CASE c \in {"b"} -> "1" [] c \in {"c"} -> "2" [] c \in {"0", "1"} -> c [] OTHER -> ""

RECURSIVE Condense(_)
Condense(code) ==
    IF Len(code) <= 1 THEN code
    ELSE IF code[1] = code[2] /\ code[1] # "" THEN Condense(Tail(code))
    ELSE <<Head(code)>> \o Condense(Tail(code))

\* natural.SoundEx.process: the first letter and three digits
SoundEx(token) ==
    LET t == toLowerCase(token)
        first == IF t = <<>> THEN "" ELSE t[1]
        rest == IF t = <<>> THEN <<>> ELSE Tail(t)
        transformed == Condense([i \in 1..Len(rest) |-> SoundexDigit(rest[i])])
        initial == SoundexDigit(first)
        stripped == IF transformed # <<>> /\ initial # "" /\ transformed[1] = initial
                    THEN Tail(transformed) ELSE transformed
        digits == SelectSeq(stripped, LAMBDA d : d # "")
        padded == digits \o [i \in 1..(3 - Min(3, Len(digits))) |-> "0"]
    IN  <<first>> \o SubSeq(padded, 1, 3)

computePhoneticSimilarity(a, b) == IF SoundEx(a) = SoundEx(b) THEN Scale ELSE 0

(***************************************************************************)
(* The relevance scorer.                                                   *)
(***************************************************************************)
\* in tenths
scoreWeights == [language |-> 3, fuzzy |-> 2, directMatch |-> 5]

\* in hundredths
languageWeights == [title |-> 60, description |-> 25, tags |-> 5, author |-> 10]

\* in hundredths
exactMatchWeights == [title |-> 60, description |-> 25, tags |-> 5, author |-> 10]

computeLanguageSimilarity(query, data, weights) ==
    LET queryNormalized == normalizeText(query)
        titleNormalized == normalizeText(data.title)
        descriptionNormalized == normalizeText(data.description)
        tagsNormalized == JoinSpace([i \in 1..Len(data.tags) |-> normalizeText(data.tags[i])])
        authorNormalized == normalizeText(data.uploader)
        titleSimilarity == computeLevenshteinSimilarity(queryNormalized, titleNormalized)
        descriptionSimilarity == computeLevenshteinSimilarity(queryNormalized, descriptionNormalized)
        tagsSimilarity == computeLevenshteinSimilarity(queryNormalized, tagsNormalized)
        authorSimilarity == computePhoneticSimilarity(queryNormalized, authorNormalized)
    IN  NumAdd(NumAdd(NumAdd(NumMul(weights.title, titleSimilarity),
                             NumMul(weights.description, descriptionSimilarity)),
                      NumMul(weights.tags, tagsSimilarity)),
               NumMul(weights.author, authorSimilarity))

\* one key of computeDirectMatch: the field's text and its weight
DirectKeyScore(queryNormalized, field, weight) ==
    LET itemKeyNormalized == trim(toLowerCase(field))
        itemKeyLength == Len(itemKeyNormalized)
        hasMatch == Includes(itemKeyNormalized, queryNormalized)
        score == IF hasMatch THEN Quotient(Len(queryNormalized), itemKeyLength) ELSE 0
    IN  NumMul(weight, score)

computeDirectMatch(query, item) ==
    LET queryNormalized == trim(toLowerCase(query))
    IN  NumAdd(NumAdd(NumAdd(DirectKeyScore(queryNormalized, item.title, exactMatchWeights.title),
                             DirectKeyScore(queryNormalized, item.description, exactMatchWeights.description)),
                      DirectKeyScore(queryNormalized, JoinSpace(item.tags), exactMatchWeights.tags)),
               DirectKeyScore(queryNormalized, item.uploader, exactMatchWeights.author))

\* the query length at which the threshold reaches its maximum
maxQueryLength == 150

\* the denominator of a threshold: minThreshold (0.1) is MathLog(maxQueryLength)
\* of these units, maxThreshold (0.8) eight times as many
ThresholdScale == 10 * MathLog(maxQueryLength)

\* a threshold that is not brought back between its bounds
calculateThresholdUnbounded(length) ==
    LET logLength == MathLog(length)
    IN  IF logLength \in {NaN, NegativeInfinity} THEN logLength
        ELSE MathLog(maxQueryLength) + 7 * logLength

\* calculateThreshold(length), over ThresholdScale
calculateThreshold(length) ==
    LET minThreshold == MathLog(maxQueryLength)
        maxThreshold == 8 * MathLog(maxQueryLength)
        logLength == MathLog(length)
        \* minThreshold + (log(length) / log(maxQueryLength)) * (maxThreshold - minThreshold)
        threshold == IF logLength \in {NaN, NegativeInfinity} THEN logLength
                     ELSE minThreshold + 7 * logLength
    IN  MathMax(minThreshold, MathMin(maxThreshold, threshold))

\* fuse.search(query): the records the fuzzy engine matches.  The queries of
\* the model are at most two characters long, where calculateThreshold gives
\* a threshold below the cost of a single edit: a key matches exactly when
\* it contains the query, letter case ignored.
FuseMatches(query, item) ==
    LET q == toLowerCase(query)
    IN  \/ Includes(toLowerCase(item.title), q)
        \/ Includes(toLowerCase(item.description), q)
        \/ \E i \in 1..Len(item.tags) : Includes(toLowerCase(item.tags[i]), q)
        \/ Includes(toLowerCase(item.uploader), q)

\* 1 - (fuzzyResult.score || 0), or 0 for a record without a fuzzy result
FuzzyScore(query, item) == IF FuseMatches(query, item) THEN item.fuse * Scale ELSE 0

\* the scored record computeSimilarity builds for one input record
ScoreItem(query, data) ==
    LET languageSimilarity == computeLanguageSimilarity(query, data, languageWeights)
        fuzzyScore == FuzzyScore(query, data)
        directMatchScore == computeDirectMatch(query, data)
        weightedLanguageScore == NumMul(scoreWeights.language, languageSimilarity)
        weightedFuzzyScore == NumMul(scoreWeights.fuzzy, fuzzyScore)
        weightedDirectMatchScore == NumMul(scoreWeights.directMatch, directMatchScore)
        finalSimilarity == NumAdd(NumAdd(weightedLanguageScore, weightedFuzzyScore),
                                  weightedDirectMatchScore)
    IN  [id |-> data.id,
         similarity |-> finalSimilarity,
         languageSimilarity |-> languageSimilarity,
         fuzzyScore |-> fuzzyScore,
         directMatchScore |-> directMatchScore]

(***************************************************************************)
(* Sorting.  Array.prototype.sort is V8's: an array shorter than 64 is     *)
(* sorted by finding the initial run and inserting the remaining elements  *)
(* by binary search; a comparator result of NaN is taken as 0.             *)
(***************************************************************************)
SORT_OPTIONS == [fuzzy |-> "fuzzy", language |-> "language", normal |-> "normal", random |-> "random"]

\* a switch whose default branch compares the fuzzy scores
SortKeyDefaultFuzzy(sortAlgorithm, a) ==
    CASE sortAlgorithm = SORT_OPTIONS.language -> a.languageSimilarity
      [] sortAlgorithm \in {SORT_OPTIONS.normal, SORT_OPTIONS.random} -> a.similarity
      [] OTHER -> a.fuzzyScore

\* the key a comparator of getSortAlgorithm reads
SortKey(sortAlgorithm, a) ==
    CASE sortAlgorithm = SORT_OPTIONS.fuzzy -> a.fuzzyScore
      [] sortAlgorithm = SORT_OPTIONS.language -> a.languageSimilarity
      [] OTHER -> a.similarity

\* the sign of getSortAlgorithm(sortAlgorithm)(a, b), NaN taken as 0
getSortAlgorithm(sortAlgorithm, a, b) ==
    LET ka == SortKey(sortAlgorithm, a)
        kb == SortKey(sortAlgorithm, b)
    IN  IF ka = NaN \/ kb = NaN THEN 0
        ELSE IF kb < ka THEN 0 - 1
        ELSE IF kb > ka THEN 1
        ELSE 0

Reverse(arr) == [i \in 1..Len(arr) |-> arr[Len(arr) + 1 - i]]

\* CountAndMakeRun: the length of the run that starts the array
RECURSIVE RunLength(_, _, _, _)
RunLength(arr, sortAlgorithm, isDescending, k) ==
    IF k = Len(arr) THEN k
    ELSE LET order == getSortAlgorithm(sortAlgorithm, arr[k + 1], arr[k])
         IN  IF (isDescending /\ order >= 0) \/ (~isDescending /\ order < 0)
             THEN k
             ELSE RunLength(arr, sortAlgorithm, isDescending, k + 1)

\* the binary search of BinaryInsertionSort: where pivot goes in arr[left+1..right]
RECURSIVE InsertionPoint(_, _, _, _, _)
InsertionPoint(arr, sortAlgorithm, pivot, left, right) ==
    IF left >= right THEN left
    ELSE LET mid == left + ((right - left) \div 2)
             order == getSortAlgorithm(sortAlgorithm, pivot, arr[mid + 1])
         IN  IF order < 0
             THEN InsertionPoint(arr, sortAlgorithm, pivot, left, mid)
             ELSE InsertionPoint(arr, sortAlgorithm, pivot, mid + 1, right)

\* BinaryInsertionSort: arr[1..start-1] is sorted, the rest is inserted
RECURSIVE BinaryInsertionSort(_, _, _)
BinaryInsertionSort(arr, sortAlgorithm, start) ==
    IF start > Len(arr) THEN arr
    ELSE LET pivot == arr[start]
             at == InsertionPoint(arr, sortAlgorithm, pivot, 0, start - 1)
             moved == SubSeq(arr, 1, at) \o <<pivot>> \o SubSeq(arr, at + 1, start - 1)
                      \o SubSeq(arr, start + 1, Len(arr))
         IN  BinaryInsertionSort(moved, sortAlgorithm, start + 1)

\* results.sort(getSortAlgorithm(sortAlgorithm)) for a comparator that reads keys
ArraySort(arr, sortAlgorithm) ==
    IF Len(arr) < 2 THEN arr
    ELSE LET isDescending == getSortAlgorithm(sortAlgorithm, arr[2], arr[1]) < 0
             runLength == RunLength(arr, sortAlgorithm, isDescending, 2)
             run == IF isDescending
                    THEN Reverse(SubSeq(arr, 1, runLength)) \o SubSeq(arr, runLength + 1, Len(arr))
                    ELSE arr
         IN  BinaryInsertionSort(run, sortAlgorithm, runLength + 1)

\* a shuffle that draws each place from the whole array
Samples(arr) == [1..Len(arr) -> {arr[i] : i \in 1..Len(arr)}]

\* every arrangement of arr
RECURSIVE Arrangements(_)
Arrangements(arr) ==
    IF arr = <<>> THEN {<<>>}
    ELSE UNION { { <<arr[i]>> \o rest :
                   rest \in Arrangements(SubSeq(arr, 1, i - 1) \o SubSeq(arr, i + 1, Len(arr))) }
                 : i \in 1..Len(arr) }

\* what results.sort(...) can leave: the comparator of the random mode answers
\* Math.random() - 0.5 to every comparison, and the insertions can then land anywhere
SortOutcomes(arr, sortAlgorithm) ==
    IF sortAlgorithm = SORT_OPTIONS.random THEN Arrangements(arr) ELSE {ArraySort(arr, sortAlgorithm)}

\* Array.prototype.slice(0, end)
Slice(arr, end) ==
    LET final == IF end < 0 THEN Max(Len(arr) + end, 0) ELSE Min(end, Len(arr))
    IN  SubSeq(arr, 1, final)

\* the lists sliceAndSortResults(results, limit, sortAlgorithm) can return
sliceAndSortResults(results, limit, sortAlgorithm) ==
    { Slice(sorted, limit) : sorted \in SortOutcomes(results, sortAlgorithm) }

\* a scorer that keeps only the records the fuzzy engine matched
computeSimilarityMatchesOnly(query, items) ==
    LET matched == SelectSeq(items, LAMBDA data : FuseMatches(query, data))
    IN  ArraySort([i \in 1..Len(matched) |-> ScoreItem(query, matched[i])], SORT_OPTIONS.normal)

\* computeSimilarity(query, items): the scored records, sorted by similarity
computeSimilarity(query, items) ==
    ArraySort([i \in 1..Len(items) |-> ScoreItem(query, items[i])], SORT_OPTIONS.normal)

(***************************************************************************)
(* The work partitioner.                                                   *)
(***************************************************************************)
\* a partitioner that rounds the chunk size down
chunkSizeFloor(n, workerCount) == n \div workerCount

\* Math.ceil(n / workerCount) for a positive workerCount
chunkSize(n, workerCount) == (n + workerCount - 1) \div workerCount

\* files.slice(i * chunkSize, (i + 1) * chunkSize), i counted from 0
workerFiles(list, workerCount, i) ==
    LET size == chunkSize(Len(list), workerCount)
    IN  SubSeq(list, i * size + 1, Min((i + 1) * size, Len(list)))

\* results.flat(1)
RECURSIVE Flat(_)
Flat(lists) == IF lists = <<>> THEN <<>> ELSE Head(lists) \o Flat(Tail(lists))

(***************************************************************************)
(* Directory listings, command lines and HTTP requests of the model.       *)
(***************************************************************************)
\* the listings of at most MaxFiles entries, in the order of FileNames
Directories ==
    { SelectSeq(FileNames, LAMBDA f : f \in S) :
      S \in { T \in SUBSET {FileNames[i] : i \in 1..Len(FileNames)} : Cardinality(T) <= MaxFiles } }

DEFAULT_SEARCH_DIRECTORY == "ytdlp"

DEFAULT_WORKER_CORES_LIMIT == 8

DEFAULT_RESULTS_LIMIT == 5

DEFAULT_SORT == SORT_OPTIONS.normal

SortNames == {"fuzzy", "language", "normal", "random", "relevance"}

\* what minimist hands the command line entry point
CliArguments ==
    [query : Queries, results : (0 - 1)..MaxLimit, cores : 0..MaxWorkers,
     directory : {DEFAULT_SEARCH_DIRECTORY}, sort : SortNames]

\* request.query of a GET /search: `given` names the parameters in the URL
SearchRequests ==
    [given : {{}, {"escape"}, {"q"}, {"q", "escape"}},
     q : {<<>>}, r : {""}, c : {""}, d : {""}, s : {""}]
    \cup
    { [given |-> g \cup e, q |-> <<"a", "b">>, r |-> "", c |-> c,
       d |-> (IF "d" \in g THEN "nodir" ELSE ""), s |-> ""] :
      g \in {{"q", "c"}, {"q", "c", "d"}}, e \in {{}, {"escape"}}, c \in {"1", "2"} }

\* the two URLs of one search: /search?q=ab&c=1 and /search?q=ab&c=1&escape
EscapeRequests ==
    { [given |-> {"q", "c"} \cup e, q |-> <<"a", "b">>, r |-> "", c |-> "1", d |-> "", s |-> ""] :
      e \in {{}, {"escape"}} }

\* GET /search?q=ab with r and c left out, not a number, zero or a number
ParameterRequests ==
    { [given |-> {"q"} \cup (IF r = "" THEN {} ELSE {"r"}) \cup (IF c = "" THEN {} ELSE {"c"}),
       q |-> <<"a", "b">>, r |-> r, c |-> c, d |-> "", s |-> ""] :
      r \in {"", "x", "0", "2"}, c \in {"", "x", "2"} }

\* Number(text) of a parameter's text: [nan, value]
Number(text) ==
    CASE text = "" -> [nan |-> FALSE, value |-> 0]
      [] text = "0" -> [nan |-> FALSE, value |-> 0]
      [] text = "-1" -> [nan |-> FALSE, value |-> 0 - 1]
      [] text = "1" -> [nan |-> FALSE, value |-> 1]
      [] text = "2" -> [nan |-> FALSE, value |-> 2]
      [] text = "3" -> [nan |-> FALSE, value |-> 3]
      [] OTHER -> [nan |-> TRUE, value |-> 0]

\* Number(requestQuery[name]) || fallback
NumberOr(requestQuery, name, text, fallback) ==
    LET n == IF name \in requestQuery.given THEN Number(text) ELSE [nan |-> TRUE, value |-> 0]
    IN  IF n.nan \/ n.value = 0 THEN fallback ELSE n.value

NoParameters == [query |-> <<>>, results |-> 0, cores |-> 0, directory |-> "", sort |-> ""]

\* getParametersFromRequest: the parameters, or the message of the Error thrown
getParametersFromRequest(requestQuery) ==
    LET query == IF "q" \in requestQuery.given THEN requestQuery.q ELSE <<>>
        results == NumberOr(requestQuery, "r", requestQuery.r, DEFAULT_RESULTS_LIMIT)
        cores == NumberOr(requestQuery, "c", requestQuery.c, DEFAULT_WORKER_CORES_LIMIT)
        directory == IF "d" \in requestQuery.given /\ requestQuery.d # ""
                     THEN requestQuery.d ELSE DEFAULT_SEARCH_DIRECTORY
        sort == IF "s" \in requestQuery.given /\ requestQuery.s # ""
                THEN requestQuery.s ELSE DEFAULT_SORT
    IN  IF query = <<>>
        THEN [thrown |-> TRUE, message |-> "Missing query parameter", params |-> NoParameters]
        ELSE [thrown |-> FALSE, message |-> "",
              params |-> [query |-> query, results |-> results, cores |-> cores,
                          directory |-> directory, sort |-> sort]]

(***************************************************************************)
(* The state.                                                              *)
(*   files         the entries of the search directory                     *)
(*   runs          per search: its parameters, its workers, the promise    *)
(*                 each worker settles, Promise.all's record, the answer   *)
(*   cache         the NodeCache of cacheMiddleware                        *)
(*   now           the clock, in seconds                                   *)
(*   requestCount  the requests handleSearch has received                  *)
(*   call          the last direct call of a helper, as a unit test makes   *)
(*                 it: the function, its arguments, what it returned       *)
(***************************************************************************)
\* the searches of the state
RunIds == DOMAIN runs

NoBody == [kind |-> "none", text |-> "", list |-> <<>>]

TextBody(text) == [kind |-> "text", text |-> text, list |-> <<>>]

ListBody(list) == [kind |-> "list", text |-> "", list |-> list]

\* `at` is the time of the answer
NoResponse == [sent |-> 0, status |-> 0, body |-> NoBody, via |-> "none", at |-> 0]

NoRequest == [given |-> {}, q |-> <<>>, r |-> "", c |-> "", d |-> "", s |-> ""]

NoAll == [state |-> "none", values |-> <<>>, remaining |-> 0]

\* `received` is the time the request arrived
NoRun ==
    [pc |-> "idle", entry |-> "none", request |-> NoRequest, received |-> 0, wrapped |-> FALSE,
     params |-> NoParameters, read |-> FALSE, workers |-> <<>>, all |-> NoAll,
     response |-> NoResponse]

NoEntry == [stored |-> FALSE, body |-> NoBody, expires |-> 0]

\* `after` is the caller's array of records as the call leaves it, `again` what
\* the same call returns when it is `repeated`
NoCall == [name |-> "none", query |-> <<>>, items |-> <<>>, text |-> <<>>, length |-> 0,
           thrown |-> FALSE, returned |-> <<>>, score |-> 0, threshold |-> 0,
           after |-> <<>>, repeated |-> FALSE, again |-> <<>>]

(***************************************************************************)
(* The fan-out: distributeTasksToWorkers and the promise of each worker.   *)
(***************************************************************************)
\* fs.readdirSync(jsonDirectory): the entries, or thrown for a directory that does not exist
readdirSync(jsonDirectory) ==
    IF jsonDirectory = DEFAULT_SEARCH_DIRECTORY
    THEN [thrown |-> FALSE, entries |-> files]
    ELSE [thrown |-> TRUE, entries |-> <<>>]

\* .filter((file) => file.endsWith('.json'))
JsonFilesOf(entries) == SelectSeq(entries, LAMBDA f : f \in JsonNames)

\* the workers distributeTasksToWorkers starts, each with the promise it settles
distributeTasksToWorkers(entries, workerCount) ==
    LET list == JsonFilesOf(entries)
    IN  [i \in 1..Max(workerCount, 0) |->
            [workerFiles |-> workerFiles(list, workerCount, i - 1),
             thread |-> "running", promise |-> "pending", code |-> 0]]

\* Promise.all(workerPromises) as it is created
PromiseAll(workers) ==
    [state |-> IF Len(workers) = 0 THEN "resolved" ELSE "pending",
     values |-> [i \in 1..Len(workers) |-> <<>>],
     remaining |-> Len(workers)]

\* a join that collects the values in the order they arrive
ResolveElementPush(values, index, value) ==
    IF \E k \in DOMAIN values : values[k] = <<>>
    THEN LET free == CHOOSE k \in DOMAIN values :
                        values[k] = <<>> /\ \A j \in 1..(k - 1) : values[j] # <<>>
         IN  [values EXCEPT ![free] = value]
    ELSE [values EXCEPT ![index] = value]

\* Promise.all's resolve element function: the value goes to the promise's own index
ResolveElement(values, index, value) == [values EXCEPT ![index] = value]

\* a join that is fulfilled by the first worker that delivers
ResolveFirst(run, i, value) ==
    IF run.workers[i].promise # "pending" THEN run
    ELSE [run EXCEPT !.workers[i].promise = "resolved",
                     !.all = [state |-> IF @.state = "pending" THEN "resolved" ELSE @.state,
                              values |-> [@.values EXCEPT ![i] = value],
                              remaining |-> @.remaining - 1]]

\* a join that does not hear of a worker's message
ResolveLost(run, i, value) == run

\* resolve(value) of worker i's promise, and Promise.all's reaction to it
Resolve(run, i, value) ==
    IF run.workers[i].promise # "pending" THEN run
    ELSE [run EXCEPT !.workers[i].promise = "resolved",
                     !.all = [state |-> IF @.state = "pending" /\ @.remaining = 1
                                        THEN "resolved" ELSE @.state,
                              values |-> ResolveElement(@.values, i, value),
                              remaining |-> @.remaining - 1]]

\* a join that takes a failed worker for one that found nothing
RejectSwallowed(run, i) ==
    IF run.workers[i].promise # "pending" THEN run
    ELSE [run EXCEPT !.workers[i].promise = "rejected",
                     !.all = [state |-> IF @.state = "pending" /\ @.remaining = 1
                                        THEN "resolved" ELSE @.state,
                              values |-> @.values,
                              remaining |-> @.remaining - 1]]

\* reject(error) of worker i's promise, and Promise.all's reaction to it
Reject(run, i) ==
    IF run.workers[i].promise # "pending" THEN run
    ELSE [run EXCEPT !.workers[i].promise = "rejected",
                     !.all.state = IF @ = "pending" THEN "rejected" ELSE @]

\* a worker that also fails when it is handed no file
ReadThrowsOnEmpty(names) == names = <<>> \/ \E k \in 1..Len(names) : names[k] \notin ValidNames

\* whether readJsonFiles(directory, workerFiles) throws: JSON.parse rejects a file
ReadThrows(names) == \E k \in 1..Len(names) : names[k] \notin ValidNames

\* readJsonFiles(directory, workerFiles)
readJsonFiles(names) == [k \in 1..Len(names) |-> Catalogue[names[k]]]

\* the worker branch runs to postMessage(matches); the main thread's
\* worker.on('message', resolve) receives it
WorkerMessage(r, i) ==
    /\ i \in DOMAIN runs[r].workers
    /\ runs[r].workers[i].thread = "running"
    /\ ~ReadThrows(runs[r].workers[i].workerFiles)
    /\ LET jsonData == readJsonFiles(runs[r].workers[i].workerFiles)
           matches == computeSimilarity(runs[r].params.query, jsonData)
       IN  runs' = [runs EXCEPT ![r] = Resolve([@ EXCEPT !.workers[i].thread = "messaged"],
                                               i, matches)]
    /\ UNCHANGED <<files, cache, now, requestCount, call>>

\* the worker branch throws in readJsonFiles; worker.on('error', reject)
WorkerError(r, i) ==
    /\ i \in DOMAIN runs[r].workers
    /\ runs[r].workers[i].thread = "running"
    /\ ReadThrows(runs[r].workers[i].workerFiles)
    /\ runs' = [runs EXCEPT ![r] = Reject([@ EXCEPT !.workers[i].thread = "errored"], i)]
    /\ UNCHANGED <<files, cache, now, requestCount, call>>

\* the worker thread ends; worker.on('exit', (code) => { if (code !== 0) reject(...) })
WorkerExit(r, i) ==
    /\ i \in DOMAIN runs[r].workers
    /\ runs[r].workers[i].thread \in {"messaged", "errored"}
    /\ LET code == IF runs[r].workers[i].thread = "messaged" THEN 0 ELSE 1
           ended == [runs[r] EXCEPT !.workers[i].thread = "exited", !.workers[i].code = code]
       IN  runs' = [runs EXCEPT ![r] = IF code # 0 THEN Reject(ended, i) ELSE ended]
    /\ UNCHANGED <<files, cache, now, requestCount, call>>

(***************************************************************************)
(* The HTTP entry point: cacheMiddleware and handleSearch.                 *)
(***************************************************************************)
\* app.use(cacheMiddleware(300)): the time to live, in seconds
CacheTtl == 300

\* a cache that never has the key
CacheMiss(key) == FALSE

\* cache.get(key): the stored body while the entry has not expired
CacheHit(key) == cache[key].stored /\ cache[key].expires >= now

\* a middleware that does not look at `escape`
EscapeIgnored(request) == FALSE

\* request.query.escape !== undefined
Escape(request) == "escape" \in request.given

\* the lowest search that has not started
NextRun == CHOOSE r \in RunIds : runs[r].pc = "idle" /\ \A p \in RunIds : p < r => runs[p].pc # "idle"

\* response.status(status).send(body) through the send that cacheMiddleware wrapped
Sent(run, status, body) ==
    [run EXCEPT !.pc = "done",
                !.response = [sent |-> @.sent + 1, status |-> status, body |-> body,
                              via |-> "handler", at |-> now]]

\* the cache after a send of `run`: the wrapped send stores the body under the key
CacheAfterSend(store, run, body) ==
    IF run.wrapped
    THEN [store EXCEPT ![run.request] = [stored |-> TRUE, body |-> body, expires |-> now + CacheTtl]]
    ELSE store

\* a GET /search arrives: cacheMiddleware, then handleSearch down to Promise.all
HttpGet(request) ==
    /\ \E r \in RunIds : runs[r].pc = "idle"
    /\ LET r == NextRun
           key == request
           escaped == Escape(request)
           \* cache.del(key) for an escape, and cache.get(key) drops an expired entry
           looked == IF escaped \/ ~CacheHit(key) THEN [cache EXCEPT ![key] = NoEntry] ELSE cache
           arrived == [NoRun EXCEPT !.entry = "api", !.request = request, !.received = now]
       IN  IF ~escaped /\ CacheHit(key)
           THEN /\ runs' = [runs EXCEPT ![r] =
                              [arrived EXCEPT !.pc = "done",
                                              !.response = [sent |-> 1, status |-> 200,
                                                            body |-> cache[key].body,
                                                            via |-> "cache", at |-> now]]]
                /\ UNCHANGED <<cache, requestCount>>
           ELSE LET wrapped == [arrived EXCEPT !.wrapped = TRUE]
                    parsed == getParametersFromRequest(request)
                    listing == readdirSync(parsed.params.directory)
                    workers == distributeTasksToWorkers(listing.entries, parsed.params.cores)
                IN  /\ requestCount' = requestCount + 1
                    /\ IF parsed.thrown
                       THEN /\ runs' = [runs EXCEPT ![r] = Sent(wrapped, 400, TextBody(parsed.message))]
                            /\ cache' = CacheAfterSend(looked, wrapped, TextBody(parsed.message))
                       ELSE IF listing.thrown
                       THEN /\ runs' = [runs EXCEPT ![r] =
                                          Sent([wrapped EXCEPT !.params = parsed.params],
                                               500, TextBody("Internal Server Error"))]
                            /\ cache' = CacheAfterSend(looked, wrapped, TextBody("Internal Server Error"))
                       ELSE /\ runs' = [runs EXCEPT ![r] =
                                          [wrapped EXCEPT !.pc = "waiting",
                                                          !.params = parsed.params,
                                                          !.read = TRUE,
                                                          !.workers = workers,
                                                          !.all = PromiseAll(workers)]]
                            /\ cache' = looked
    /\ UNCHANGED <<files, now, call>>

\* the rows handleSearch answers with: each result with its place in the list
ResponseData(combinedResults) ==
    [k \in 1..Len(combinedResults) |->
        [index |-> k, id |-> combinedResults[k].id,
         similarity |-> combinedResults[k].similarity,
         fuzzyScore |-> combinedResults[k].fuzzyScore,
         languageSimilarity |-> combinedResults[k].languageSimilarity,
         directMatchScore |-> combinedResults[k].directMatchScore]]

\* Promise.all(workerPromises).then of handleSearch: merge, sort, cut, answer
ApiThen(r) ==
    /\ runs[r].entry = "api"
    /\ runs[r].pc = "waiting"
    /\ runs[r].all.state = "resolved"
    /\ LET mergedWorkerResults == Flat(runs[r].all.values)
       IN  \E combinedResults \in sliceAndSortResults(mergedWorkerResults, runs[r].params.results,
                                                      runs[r].params.sort) :
              LET body == ListBody(ResponseData(combinedResults))
              IN  /\ runs' = [runs EXCEPT ![r] = Sent(@, 200, body)]
                  /\ cache' = CacheAfterSend(cache, runs[r], body)
    /\ UNCHANGED <<files, now, requestCount, call>>

\* Promise.all(workerPromises).catch of handleSearch
ApiCatch(r) ==
    /\ runs[r].entry = "api"
    /\ runs[r].pc = "waiting"
    /\ runs[r].all.state = "rejected"
    /\ runs' = [runs EXCEPT ![r] = Sent(@, 500, TextBody("Internal Server Error"))]
    /\ cache' = CacheAfterSend(cache, runs[r], TextBody("Internal Server Error"))
    /\ UNCHANGED <<files, now, requestCount, call>>

\* the lapses of time between two events: just short of the time to live of a
\* stored response, and just over it
TickSteps == {CacheTtl - 1, CacheTtl + 1}

\* time passes
Tick(step) ==
    /\ now + step <= MaxTicks * (CacheTtl + 1)
    /\ now' = now + step
    /\ UNCHANGED <<files, runs, cache, requestCount, call>>

(***************************************************************************)
(* The command line entry point.                                           *)
(***************************************************************************)
\* the main thread of cli.ts down to Promise.all
CliMain(args) ==
    /\ runs[1].pc = "idle"
    /\ LET listing == readdirSync(args.directory)
           workers == distributeTasksToWorkers(listing.entries, args.cores)
       IN  runs' = [runs EXCEPT ![1] =
                      [NoRun EXCEPT !.pc = "waiting", !.entry = "cli", !.params = args,
                                    !.read = TRUE, !.workers = workers,
                                    !.all = PromiseAll(workers)]]
    /\ UNCHANGED <<files, cache, now, requestCount, call>>

\* Promise.all(workerPromises).then of cli.ts: merge, sort, cut, print
CliThen(r) ==
    /\ runs[r].entry = "cli"
    /\ runs[r].pc = "waiting"
    /\ runs[r].all.state = "resolved"
    /\ LET mergedWorkerResults == Flat(runs[r].all.values)
       IN  \E combinedResults \in sliceAndSortResults(mergedWorkerResults, runs[r].params.results,
                                                      runs[r].params.sort) :
              runs' = [runs EXCEPT ![r] =
                         [@ EXCEPT !.pc = "done",
                                   !.response = [sent |-> 1, status |-> 0,
                                                 body |-> ListBody(combinedResults),
                                                 via |-> "console.log", at |-> now]]]
    /\ UNCHANGED <<files, cache, now, requestCount, call>>

\* Promise.all(workerPromises).catch of cli.ts: console.error(err)
CliCatch(r) ==
    /\ runs[r].entry = "cli"
    /\ runs[r].pc = "waiting"
    /\ runs[r].all.state = "rejected"
    /\ runs' = [runs EXCEPT ![r] =
                  [@ EXCEPT !.pc = "done",
                            !.response = [sent |-> 1, status |-> 0, body |-> TextBody("Error"),
                                          via |-> "console.error", at |-> now]]]
    /\ UNCHANGED <<files, cache, now, requestCount, call>>

(***************************************************************************)
(* The first command line entry point, src/index.ts.                       *)
(***************************************************************************)
\* the main thread of index.ts down to Promise.all: the same listing, chunks
\* and workers as distributeTasksToWorkers, written out in place
IndexMain(args) ==
    /\ runs[1].pc = "idle"
    /\ LET listing == readdirSync(args.directory)
           workers == distributeTasksToWorkers(listing.entries, args.cores)
       IN  runs' = [runs EXCEPT ![1] =
                      [NoRun EXCEPT !.pc = "waiting", !.entry = "index", !.params = args,
                                    !.read = TRUE, !.workers = workers,
                                    !.all = PromiseAll(workers)]]
    /\ UNCHANGED <<files, cache, now, requestCount, call>>

\* an element of Promise.all's array read as an Item: the element is the array
\* a worker posted, its id, similarity, fuzzyScore and languageSimilarity are
\* undefined, and a difference of two of them is NaN
ArrayAsItem(posted) ==
    [id |-> "undefined", similarity |-> NaN, fuzzyScore |-> NaN, languageSimilarity |-> NaN,
     posted |-> posted]

\* what index.ts prints of a result
PrintedResult(result) ==
    [id |-> result.id, similarity |-> result.similarity, fuzzyScore |-> result.fuzzyScore,
     languageSimilarity |-> result.languageSimilarity]

\* Promise.all(promises).then of index.ts: sort and cut the array of the
\* workers' arrays, print each element
IndexThen(r) ==
    /\ runs[r].entry = "index"
    /\ runs[r].pc = "waiting"
    /\ runs[r].all.state = "resolved"
    /\ LET results == [i \in 1..Len(runs[r].all.values) |-> ArrayAsItem(runs[r].all.values[i])]
       IN  \E combinedResults \in sliceAndSortResults(results, runs[r].params.results,
                                                      runs[r].params.sort) :
              runs' = [runs EXCEPT ![r] =
                         [@ EXCEPT !.pc = "done",
                                   !.response =
                                       [sent |-> 1, status |-> 0,
                                        body |-> ListBody([k \in 1..Len(combinedResults) |->
                                                              PrintedResult(combinedResults[k])]),
                                        via |-> "console.log", at |-> now]]]
    /\ UNCHANGED <<files, cache, now, requestCount, call>>

\* Promise.all(promises).catch of index.ts: console.error(err)
IndexCatch(r) ==
    /\ runs[r].entry = "index"
    /\ runs[r].pc = "waiting"
    /\ runs[r].all.state = "rejected"
    /\ runs' = [runs EXCEPT ![r] =
                  [@ EXCEPT !.pc = "done",
                            !.response = [sent |-> 1, status |-> 0, body |-> TextBody("Error"),
                                          via |-> "console.error", at |-> now]]]
    /\ UNCHANGED <<files, cache, now, requestCount, call>>

(***************************************************************************)
(* Direct calls of the helpers, as helpers.test.ts makes them.             *)
(***************************************************************************)
\* the longest text handed to normalizeText
MaxInputLen == 3
\* the longest list of records handed to computeSimilarity
MaxItems == 2

\* the longest query whose threshold is computed
MaxLength == 152

\* the characters of the texts handed to normalizeText
InputChars == {"a", "B", "1", "_", "!", " ", "\t"}

RECURSIVE TextsUpTo(_)
TextsUpTo(n) ==
    IF n = 0 THEN {<<>>}
    ELSE LET shorter == TextsUpTo(n - 1)
         IN  shorter \cup {Append(t, c) : t \in {u \in shorter : Len(u) = n - 1}, c \in InputChars}

RECURSIVE ItemsUpTo(_)
ItemsUpTo(n) ==
    IF n = 0 THEN {<<>>}
    ELSE LET shorter == ItemsUpTo(n - 1)
         IN  shorter \cup {Append(l, x) : l \in {u \in shorter : Len(u) = n - 1}, x \in SampleRecords}

\* a scorer that reads an optional field without a fallback
ScoreThrowsOnMissing(data) == data.absent # {}

\* whether scoring a record throws: every optional field is read through
\* `|| ''` or `|| []`, so it does not
ScoreThrows(data) == FALSE

\* a scorer that takes the records out of the caller's array as it scores them
ItemsConsumed(query, items) == <<>>

\* a scorer that writes the scores into the records it was given
ItemsScoredInPlace(query, items) ==
    [k \in 1..Len(items) |->
        [f \in DOMAIN items[k] \cup {"similarity"} |->
            IF f = "similarity" THEN ScoreItem(query, items[k]).similarity ELSE items[k][f]]]

\* the caller's array after computeSimilarity(query, items): fuse.search and
\* items.map read it, each scored record is a new object ({...data, ...}), and
\* the array that is sorted in place is the one items.map made
ItemsAfter(query, items) == items

\* normalizeText(text)
CallNormalizeText(text) ==
    /\ call = NoCall
    /\ call' = [NoCall EXCEPT !.name = "normalizeText", !.text = text,
                              !.returned = normalizeText(text)]
    /\ UNCHANGED <<files, runs, cache, now, requestCount>>

\* computeSimilarity(query, items)
CallComputeSimilarity(query, items) ==
    /\ call = NoCall
    /\ call' = IF \E k \in 1..Len(items) : ScoreThrows(items[k])
               THEN [NoCall EXCEPT !.name = "computeSimilarity", !.query = query,
                                   !.items = items, !.after = items, !.thrown = TRUE]
               ELSE [NoCall EXCEPT !.name = "computeSimilarity", !.query = query,
                                   !.items = items,
                                   !.after = ItemsAfter(query, items),
                                   !.returned = computeSimilarity(query, items)]
    /\ UNCHANGED <<files, runs, cache, now, requestCount>>

\* the same computeSimilarity(query, items) once more, with the caller's array
\* as the first call left it
CallComputeSimilarityAgain ==
    /\ call.name = "computeSimilarity"
    /\ ~call.thrown
    /\ ~call.repeated
    /\ call' = [call EXCEPT !.repeated = TRUE,
                            !.again = computeSimilarity(call.query, call.after)]
    /\ UNCHANGED <<files, runs, cache, now, requestCount>>

\* computeDirectMatch(query, item)
CallComputeDirectMatch(query, item) ==
    /\ call = NoCall
    /\ call' = [NoCall EXCEPT !.name = "computeDirectMatch", !.query = query,
                              !.items = <<item>>,
                              \* the item is read through cloneDeep(item)
                              !.after = <<item>>,
                              !.score = computeDirectMatch(query, item)]
    /\ UNCHANGED <<files, runs, cache, now, requestCount>>

\* calculateThreshold(query.length), as computeSimilarity calls it
CallCalculateThreshold(length) ==
    /\ call = NoCall
    /\ call' = [NoCall EXCEPT !.name = "calculateThreshold", !.length = length,
                              !.threshold = calculateThreshold(length)]
    /\ UNCHANGED <<files, runs, cache, now, requestCount>>

(***************************************************************************)
(* The specifications: the HTTP server, one run of a command line, and the *)
(* direct calls of the helpers.                                            *)
(***************************************************************************)
Init ==
    /\ files \in Directories
    /\ runs = [r \in 1..MaxRequests |-> NoRun]
    /\ cache = [key \in SearchRequests |-> NoEntry]
    /\ now = 0
    /\ requestCount = 0
    /\ call = NoCall

Next ==
    \/ \E request \in SearchRequests : HttpGet(request)
    \/ \E r \in 1..MaxRequests : \E i \in 1..DEFAULT_WORKER_CORES_LIMIT : WorkerMessage(r, i)
    \/ \E r \in 1..MaxRequests : \E i \in 1..DEFAULT_WORKER_CORES_LIMIT : WorkerError(r, i)
    \/ \E r \in 1..MaxRequests : \E i \in 1..DEFAULT_WORKER_CORES_LIMIT : WorkerExit(r, i)
    \/ \E r \in 1..MaxRequests : ApiThen(r)
    \/ \E r \in 1..MaxRequests : ApiCatch(r)
    \/ \E step \in TickSteps : Tick(step)

Spec == Init /\ [][Next]_vars

\* a step of a worker thread
WorkerStep ==
    \E r \in RunIds : \E i \in 1..DEFAULT_WORKER_CORES_LIMIT :
        WorkerMessage(r, i) \/ WorkerError(r, i) \/ WorkerExit(r, i)

\* a worker thread has a step to take: it runs, or it has posted or thrown and
\* not yet exited (the condition under which WorkerStep is enabled)
WorkerCanStep ==
    \E r \in RunIds : \E i \in DOMAIN runs[r].workers :
        runs[r].workers[i].thread \in {"running", "messaged", "errored"}

\* a reaction of the main thread to Promise.all settling
Callback == \E r \in RunIds : ApiThen(r) \/ ApiCatch(r)

\* the directories of the server whose scheduling is followed: an empty one,
\* one of two records, and one with a file that is not valid JSON
LiveDirectories == {<<>>, <<"f1", "f2">>, <<"f1", "f9", "f2">>}

InitLive ==
    /\ files \in LiveDirectories
    /\ runs = [r \in 1..MaxRequests |-> NoRun]
    /\ cache = [key \in SearchRequests |-> NoEntry]
    /\ now = 0
    /\ requestCount = 0
    /\ call = NoCall

\* the server with its scheduling: the event loop runs the reaction of a
\* settled promise, and a worker thread that can run does run (weak fairness
\* of WorkerStep, with its enabling condition written out)
SpecLive ==
    /\ InitLive
    /\ [][Next]_vars
    /\ WF_vars(Callback)
    /\ ([]<>(~WorkerCanStep) \/ []<><<WorkerStep>>_vars)

NextCli ==
    \/ \E args \in CliArguments : CliMain(args)
    \/ \E i \in 1..MaxWorkers : WorkerMessage(1, i)
    \/ \E i \in 1..MaxWorkers : WorkerError(1, i)
    \/ \E i \in 1..MaxWorkers : WorkerExit(1, i)
    \/ CliThen(1)
    \/ CliCatch(1)

SpecCli == Init /\ [][NextCli]_vars

\* a server whose directory holds two records, asked for one search
InitEscape ==
    /\ files = <<"f1", "f2">>
    /\ runs = [r \in 1..MaxLookups |-> NoRun]
    /\ cache = [key \in SearchRequests |-> NoEntry]
    /\ now = 0
    /\ requestCount = 0
    /\ call = NoCall

NextEscape ==
    \/ \E request \in EscapeRequests : HttpGet(request)
    \/ \E r \in 1..MaxLookups : WorkerMessage(r, 1)
    \/ \E r \in 1..MaxLookups : WorkerExit(r, 1)
    \/ \E r \in 1..MaxLookups : ApiThen(r)
    \/ \E step \in TickSteps : Tick(step)

SpecEscape == InitEscape /\ [][NextEscape]_vars

\* one request to a server whose directory holds two records
InitParameters ==
    /\ files = <<"f1", "f2">>
    /\ runs = [r \in {1} |-> NoRun]
    /\ cache = [key \in SearchRequests \cup ParameterRequests |-> NoEntry]
    /\ now = 0
    /\ requestCount = 0
    /\ call = NoCall

NextParameters ==
    \/ \E request \in ParameterRequests : HttpGet(request)
    \/ \E i \in 1..DEFAULT_WORKER_CORES_LIMIT : WorkerMessage(1, i)
    \/ \E i \in 1..DEFAULT_WORKER_CORES_LIMIT : WorkerExit(1, i)
    \/ ApiThen(1)

SpecParameters == InitParameters /\ [][NextParameters]_vars

NextIndex ==
    \/ \E args \in CliArguments : IndexMain(args)
    \/ \E i \in 1..MaxWorkers : WorkerMessage(1, i)
    \/ \E i \in 1..MaxWorkers : WorkerError(1, i)
    \/ \E i \in 1..MaxWorkers : WorkerExit(1, i)
    \/ IndexThen(1)
    \/ IndexCatch(1)

SpecIndex == Init /\ [][NextIndex]_vars

InitHelpers ==
    /\ files = <<>>
    /\ runs = [r \in 1..MaxRequests |-> NoRun]
    /\ cache = [key \in SearchRequests |-> NoEntry]
    /\ now = 0
    /\ requestCount = 0
    /\ call = NoCall

NextHelpers ==
    \/ \E text \in TextsUpTo(MaxInputLen) : CallNormalizeText(text)
    \/ \E query \in SampleQueries : \E items \in ItemsUpTo(MaxItems) :
          CallComputeSimilarity(query, items)
    \/ \E query \in SampleQueries : \E item \in SampleRecords :
          CallComputeDirectMatch(query, item)
    \/ \E length \in 0..MaxLength : CallCalculateThreshold(length)
    \/ CallComputeSimilarityAgain

SpecHelpers == InitHelpers /\ [][NextHelpers]_vars

(***************************************************************************)
(* The search as a function of its inputs, for the properties that compare *)
(* a run with what another worker count or another schedule would give.    *)
(***************************************************************************)
\* what the workers post, in the order of their indexes
WorkerOutputs(query, entries, workerCount) ==
    LET list == JsonFilesOf(entries)
    IN  [i \in 1..workerCount |->
            computeSimilarity(query, readJsonFiles(workerFiles(list, workerCount, i - 1)))]

\* the lists the search can return
runDistributed(query, entries, workerCount, resultLimit, sortMode) ==
    sliceAndSortResults(Flat(WorkerOutputs(query, entries, workerCount)), resultLimit, sortMode)

IdsOf(list) == {list[k].id : k \in 1..Len(list)}

\* the search of run r came back with a ranked list
Ranked(r) == runs[r].pc = "done" /\ runs[r].response.body.kind = "list"

\* the search of run r was computed by its own workers (not answered from the cache)
Computed(r) == Ranked(r) /\ runs[r].response.via # "cache"

Deterministic(r) == runs[r].params.sort # SORT_OPTIONS.random

\* a worker of run r raised an error or ended with a non-zero exit code
WorkerFailed(r) ==
    \E i \in DOMAIN runs[r].workers :
        \/ runs[r].workers[i].thread = "errored"
        \/ runs[r].workers[i].thread = "exited" /\ runs[r].workers[i].code # 0

\* the scored records of a returned list, without the place numbers of the HTTP rows
Unindexed(list) ==
    [k \in 1..Len(list) |->
        [id |-> list[k].id, similarity |-> list[k].similarity,
         languageSimilarity |-> list[k].languageSimilarity,
         fuzzyScore |-> list[k].fuzzyScore,
         directMatchScore |-> list[k].directMatchScore]]

Returned(r) == Unindexed(runs[r].response.body.list)

\* the chunks handed to the workers of run r, in the order of the workers
ChunksOf(r) == [i \in 1..Len(runs[r].workers) |-> runs[r].workers[i].workerFiles]

(***************************************************************************)
(* C1.  For every non-empty query, record set, result limit and non-random *)
(* sort mode, the search run with several workers returns the same set of  *)
(* top-K ids as the search run with one worker.                            *)
(***************************************************************************)
C1_SameTopKAsOneWorker ==
    \A r \in RunIds :
        (Computed(r) /\ Deterministic(r) /\ Len(runs[r].workers) > 1 /\ runs[r].params.results >= 0)
        => \A one \in runDistributed(runs[r].params.query, files, 1,
                                     runs[r].params.results, runs[r].params.sort) :
               IdsOf(Returned(r)) = IdsOf(one)

(***************************************************************************)
(* C2.  Partition completeness: for every number of candidate files and    *)
(* every workerCount >= 1 the chunks, taken in the order of the workers,   *)
(* are the file list itself: contiguous, disjoint, nothing left out, one   *)
(* chunk per worker.                                                       *)
(***************************************************************************)
C2_PartitionComplete ==
    \A r \in RunIds :
        (runs[r].read /\ runs[r].params.cores >= 1)
        => /\ Len(runs[r].workers) = runs[r].params.cores
           /\ Flat(ChunksOf(r)) = JsonFilesOf(files)

\* more workers than candidate files, and at least one candidate
C2_Witness ==
    \E r \in RunIds :
        /\ runs[r].read
        /\ Len(runs[r].workers) > Len(JsonFilesOf(files))
        /\ Len(JsonFilesOf(files)) >= 2

(***************************************************************************)
(* C3.  Fail-fast: once a worker has raised an error or ended with a       *)
(* non-zero exit code the joined promise is rejected, the search is        *)
(* answered with 500 and never with a ranked list, whatever the other      *)
(* workers post afterwards.                                                *)
(***************************************************************************)
C3_FailFast ==
    \A r \in RunIds :
        WorkerFailed(r)
        => /\ runs[r].all.state = "rejected"
           /\ runs[r].response.body.kind # "list"
           /\ runs[r].pc = "done" => runs[r].response.status = 500

\* a worker failed, the search was answered 500, another worker has posted its records
C3_Witness ==
    \E r \in RunIds :
        /\ WorkerFailed(r)
        /\ runs[r].pc = "done"
        /\ runs[r].response.status = 500
        /\ \E j \in DOMAIN runs[r].workers :
              runs[r].workers[j].promise = "resolved" /\ runs[r].all.values[j] # <<>>

(***************************************************************************)
(* C4.  Join barrier: a result list is merged and sent only in a state     *)
(* where every dispatched worker has posted its result.                    *)
(***************************************************************************)
C4_JoinBarrier ==
    \A r \in RunIds :
        Computed(r)
        => /\ Len(runs[r].workers) = Max(runs[r].params.cores, 0)
           /\ \A i \in DOMAIN runs[r].workers :
                 /\ runs[r].workers[i].promise = "resolved"
                 /\ runs[r].workers[i].thread \in {"messaged", "exited"}

\* a list was sent for a search of at least two workers
C4_Witness ==
    \E r \in RunIds : Computed(r) /\ runs[r].entry = "api" /\ Len(runs[r].workers) >= 2

(***************************************************************************)
(* C5.  For a fixed query, record set, worker count, result limit and      *)
(* non-random sort mode the returned list is the same whatever the order   *)
(* in which the workers finish: it is the list the inputs alone determine. *)
(***************************************************************************)
C5_ScheduleIndependent ==
    \A r \in RunIds :
        (Computed(r) /\ Deterministic(r))
        => Returned(r) \in runDistributed(runs[r].params.query, files, runs[r].params.cores,
                                          runs[r].params.results, runs[r].params.sort)

\* a list merged from two workers whose records tie on the sort key
C5_Witness ==
    \E r \in RunIds :
        /\ Computed(r)
        /\ Deterministic(r)
        /\ Len(Returned(r)) >= 2
        /\ \E i, j \in DOMAIN runs[r].all.values :
              /\ i < j
              /\ \E a \in DOMAIN runs[r].all.values[i], b \in DOMAIN runs[r].all.values[j] :
                    SortKey(runs[r].params.sort, runs[r].all.values[i][a])
                        = SortKey(runs[r].params.sort, runs[r].all.values[j][b])

(***************************************************************************)
(* C6.  No caller receives a success-status response whose body is the     *)
(* outcome of a failed search: a response with status 200 carries a ranked *)
(* list, never the message of a 400 or a 500.                              *)
(***************************************************************************)
C6_SuccessCarriesList ==
    \A r \in RunIds :
        (runs[r].response.sent > 0 /\ runs[r].response.status = 200)
        => runs[r].response.body.kind = "list"

(***************************************************************************)
(* C7.  A result limit <= 0 yields an empty result, whatever the merged    *)
(* results are.                                                            *)
(***************************************************************************)
C7_NonPositiveLimitEmpty ==
    \A r \in RunIds :
        (Computed(r) /\ runs[r].params.results <= 0) => Returned(r) = <<>>

(***************************************************************************)
(* C8.  A worker that receives an empty chunk posts an empty list and      *)
(* never errors, and the search returns the ranking of the records held by *)
(* the other workers (the empty list when there is no candidate).          *)
(***************************************************************************)
C8_EmptyChunk ==
    \A r \in RunIds :
        /\ \A i \in DOMAIN runs[r].workers :
              runs[r].workers[i].workerFiles = <<>>
              => /\ runs[r].workers[i].thread # "errored"
                 /\ runs[r].workers[i].promise # "rejected"
                 /\ runs[r].workers[i].code = 0
                 /\ runs[r].workers[i].promise = "resolved" => runs[r].all.values[i] = <<>>
        /\ (Computed(r) /\ Deterministic(r))
           => LET busy == SelectSeq(ChunksOf(r), LAMBDA chunk : chunk # <<>>)
                  others == [k \in 1..Len(busy) |->
                                computeSimilarity(runs[r].params.query, readJsonFiles(busy[k]))]
              IN  Returned(r) \in sliceAndSortResults(Flat(others), runs[r].params.results,
                                                      runs[r].params.sort)

\* a search with an idle worker returned the records of the others
C8_Witness ==
    \E r \in RunIds :
        /\ Computed(r)
        /\ Returned(r) # <<>>
        /\ \E i \in DOMAIN runs[r].workers :
              runs[r].workers[i].workerFiles = <<>> /\ runs[r].workers[i].promise = "resolved"

(***************************************************************************)
(* C9.  A /search request without a query (q missing or empty) is answered *)
(* with HTTP 400, and no directory is read and no worker dispatched for it.*)
(***************************************************************************)
C9_MissingQueryIs400 ==
    \A r \in RunIds :
        (runs[r].entry = "api" /\ runs[r].pc = "done"
            /\ ("q" \notin runs[r].request.given \/ runs[r].request.q = <<>>))
        => /\ runs[r].response.status = 400
           /\ ~runs[r].read
           /\ runs[r].workers = <<>>

(***************************************************************************)
(* C10.  For the modes fuzzy, language and normal and a limit >= 1 the     *)
(* returned list holds min(limit, total) records in non-increasing order   *)
(* of the mode's key, and no omitted record has a greater key than a       *)
(* returned one.                                                           *)
(***************************************************************************)
C10_SortedTopK ==
    \A r \in RunIds :
        (Computed(r) /\ runs[r].params.results >= 1
            /\ runs[r].params.sort \in {"fuzzy", "language", "normal"})
        => LET list == Returned(r)
               merged == Flat(runs[r].all.values)
               key(x) == SortKey(runs[r].params.sort, x)
               Greater(x, y) == key(x) # NaN /\ key(y) # NaN /\ key(x) > key(y)
           IN  /\ Len(list) = Min(runs[r].params.results, Len(merged))
               /\ \A i, j \in DOMAIN list : i < j => ~Greater(list[j], list[i])
               /\ \A k \in DOMAIN merged :
                     merged[k].id \notin IdsOf(list)
                     => \A i \in DOMAIN list : ~Greater(merged[k], list[i])

(***************************************************************************)
(* C11.  A sort mode name other than fuzzy, language and random never      *)
(* causes an error: its comparator is the one of normal (descending final  *)
(* similarity), so the search answers and returns what normal returns.     *)
(***************************************************************************)
C11_UnknownModeIsNormal ==
    \A r \in RunIds :
        (runs[r].entry = "cli" /\ runs[r].pc = "done" /\ ~WorkerFailed(r)
            /\ runs[r].params.sort \notin {SORT_OPTIONS.fuzzy, SORT_OPTIONS.language,
                                            SORT_OPTIONS.random})
        => LET merged == Flat(runs[r].all.values)
           IN  /\ Computed(r)
               /\ \A i, j \in DOMAIN merged :
                     getSortAlgorithm(runs[r].params.sort, merged[i], merged[j])
                         = getSortAlgorithm(SORT_OPTIONS.normal, merged[i], merged[j])
               /\ Returned(r) \in runDistributed(runs[r].params.query, files, runs[r].params.cores,
                                                 runs[r].params.results, SORT_OPTIONS.normal)

\* a search in a mode of an unknown name returned records of different similarity
C11_Witness ==
    \E r \in RunIds :
        /\ Computed(r)
        /\ runs[r].params.sort \notin {v : v \in {SORT_OPTIONS[k] : k \in DOMAIN SORT_OPTIONS}}
        /\ \E i, j \in DOMAIN Returned(r) :
              /\ Returned(r)[i].similarity # NaN
              /\ Returned(r)[j].similarity # NaN
              /\ Returned(r)[i].similarity > Returned(r)[j].similarity

\* how many records of the list have the id
CountId(list, id) == Cardinality({k \in 1..Len(list) : list[k].id = id})

(***************************************************************************)
(* C12.  computeSimilarity(query, items) returns one scored record for     *)
(* each input record: every id as often as in the input, no other id, and  *)
(* a record the fuzzy engine did not match is kept with fuzzyScore 0.      *)
(***************************************************************************)
C12_OneScoredRecordPerInput ==
    call.name = "computeSimilarity"
    => /\ ~call.thrown
       /\ Len(call.returned) = Len(call.items)
       /\ \A x \in SampleRecords : CountId(call.returned, x.id) = CountId(call.items, x.id)
       /\ \A k \in DOMAIN call.returned :
             /\ \E x \in SampleRecords : x.id = call.returned[k].id
             /\ (\E i \in DOMAIN call.items :
                    /\ call.items[i].id = call.returned[k].id
                    /\ ~FuseMatches(call.query, call.items[i]))
                => call.returned[k].fuzzyScore = 0

\* the same record twice, not matched by the fuzzy engine, both copies returned
C12_Witness ==
    /\ call.name = "computeSimilarity"
    /\ Len(call.items) = 2
    /\ call.items[1] = call.items[2]
    /\ ~FuseMatches(call.query, call.items[1])
    /\ Len(call.returned) = 2

(***************************************************************************)
(* C13.  No score is NaN or infinite: for every query and every record,    *)
(* records with empty or missing fields and texts that normalize to the    *)
(* empty text included, similarity, languageSimilarity, fuzzyScore and     *)
(* directMatchScore are numbers.                                           *)
(***************************************************************************)
C13_ScoresAreNumbers ==
    call.name = "computeSimilarity"
    => \A k \in DOMAIN call.returned :
          /\ call.returned[k].similarity # NaN
          /\ call.returned[k].languageSimilarity # NaN
          /\ call.returned[k].fuzzyScore # NaN
          /\ call.returned[k].directMatchScore # NaN

\* the texts computeDirectMatch reads from a record, with their weights
DirectKeys(item) ==
    << [text |-> item.title, weight |-> exactMatchWeights.title],
       [text |-> item.description, weight |-> exactMatchWeights.description],
       [text |-> JoinSpace(item.tags), weight |-> exactMatchWeights.tags],
       [text |-> item.uploader, weight |-> exactMatchWeights.author] >>

RECURSIVE SumOfFilled(_, _)
\* the sum of the scores of the keys that have a text
SumOfFilled(queryNormalized, keys) ==
    IF keys = <<>> THEN 0
    ELSE NumAdd(IF Head(keys).text = <<>> THEN 0
                ELSE DirectKeyScore(queryNormalized, Head(keys).text, Head(keys).weight),
                SumOfFilled(queryNormalized, Tail(keys)))

(***************************************************************************)
(* C14.  In computeDirectMatch an empty or missing field contributes       *)
(* exactly 0, for every query: the result is the sum over the fields that  *)
(* have a text, and the quotient by the zero length never reaches it.      *)
(***************************************************************************)
C14_EmptyFieldScoresZero ==
    call.name = "computeDirectMatch"
    => LET item == call.items[1]
           queryNormalized == trim(toLowerCase(call.query))
       IN  /\ \A k \in 1..4 :
                 DirectKeys(item)[k].text = <<>>
                 => DirectKeyScore(queryNormalized, <<>>, DirectKeys(item)[k].weight) = 0
           /\ call.score = SumOfFilled(queryNormalized, DirectKeys(item))

(***************************************************************************)
(* C15.  For each of the four fields: when the lowercased, trimmed query   *)
(* is part of the lowercased, trimmed field, the field's unweighted score  *)
(* is len(query) / len(field) and lies in (0, 1]; otherwise it is 0.       *)
(* directMatchScore is the sum of the field scores times the weights       *)
(* 0.6 / 0.25 / 0.05 / 0.1 and lies in [0, 1].                             *)
(***************************************************************************)
C15_DirectMatchFieldScore ==
    call.name = "computeDirectMatch"
    => LET keys == DirectKeys(call.items[1])
           queryNormalized == trim(toLowerCase(call.query))
           field(k) == trim(toLowerCase(keys[k].text))
           unweighted(k) == DirectKeyScore(queryNormalized, keys[k].text, 1)
       IN  /\ <<keys[1].weight, keys[2].weight, keys[3].weight, keys[4].weight>> = <<60, 25, 5, 10>>
           /\ \A k \in 1..4 :
                 /\ unweighted(k) # NaN
                 /\ IF Includes(field(k), queryNormalized)
                    THEN /\ unweighted(k) * Len(field(k)) = Len(queryNormalized) * Scale
                         /\ 0 < unweighted(k)
                         /\ unweighted(k) <= Scale
                    ELSE unweighted(k) = 0
           /\ call.score # NaN
           /\ call.score = 60 * unweighted(1) + 25 * unweighted(2)
                               + 5 * unweighted(3) + 10 * unweighted(4)
           /\ 0 <= call.score
           /\ call.score <= 100 * Scale

\* whether the text contains the query, letter case and outer blanks ignored
Mentions(text, query) == Includes(trim(toLowerCase(text)), trim(toLowerCase(query)))

\* whether a field of the record contains the query
MentionedIn(item, query) ==
    \E k \in 1..4 : Mentions(DirectKeys(item)[k].text, query)

\* the input record a scored record was made from
InputOf(scored) == CHOOSE x \in SampleRecords : x.id = scored.id

(***************************************************************************)
(* C16.  In normal mode a record none of whose fields mention the query is *)
(* ranked after every record that has a field containing the query, and a  *)
(* record with the query in its title is ranked ahead of the records that  *)
(* contain it only in the description.                                     *)
(***************************************************************************)
C16_MentionsRankFirst ==
    call.name = "computeSimilarity"
    => LET ranking == ArraySort(call.returned, SORT_OPTIONS.normal)
           query == call.query
       IN  \A i, j \in DOMAIN ranking :
              LET x == InputOf(ranking[i])
                  y == InputOf(ranking[j])
              IN  /\ (MentionedIn(x, query) /\ ~MentionedIn(y, query)) => i < j
                  /\ (/\ Mentions(x.title, query)
                      /\ Mentions(y.description, query)
                      /\ ~Mentions(y.title, query)
                      /\ ~Mentions(JoinSpace(y.tags), query)
                      /\ ~Mentions(y.uploader, query))
                     => i < j

\* lowercase letters and digits
IsLowerAlphanumeric(c) == c \in {"a", "b", "c", "0", "1"}

\* letters and digits of either case
IsAlphanumeric(c) == c \in {"a", "b", "c", "A", "B", "C", "0", "1"}

(***************************************************************************)
(* C17.  normalizeText is total and its output consists only of lowercase  *)
(* letters, digits and single interior spaces: every character that is     *)
(* neither alphanumeric nor a space is removed, runs of whitespace become  *)
(* one space, no space leads or trails, and the empty text gives the empty *)
(* text.                                                                   *)
(***************************************************************************)
C17_NormalizedAlphabet ==
    call.name = "normalizeText"
    => LET out == call.returned
       IN  /\ \A i \in DOMAIN out : IsLowerAlphanumeric(out[i]) \/ out[i] = " "
           /\ \A i \in 1..(Len(out) - 1) : ~(out[i] = " " /\ out[i + 1] = " ")
           /\ out # <<>> => (out[1] # " " /\ out[Len(out)] # " ")
           /\ SelectSeq(out, LAMBDA c : c # " ")
                 = toLowerCase(SelectSeq(call.text, IsAlphanumeric))
           /\ call.text = <<>> => out = <<>>

\* the record with every missing field present and empty
WithEmptyFields(item) == [item EXCEPT !.absent = {}]

C19_LastChunkTakesRemainder ==
    \A r \in RunIds :
        (runs[r].read /\ runs[r].params.cores >= 1)
        => LET chunks == ChunksOf(r)
               last == Len(chunks)
               candidates == JsonFilesOf(files)
           IN  /\ last = runs[r].params.cores
               /\ \A i, j \in 1..(last - 1) : Len(chunks[i]) = Len(chunks[j])
               /\ \A i \in 1..(last - 1) : Len(chunks[i]) = Len(chunks[1])
               /\ chunks[last]
                     = SubSeq(candidates, (last - 1) * Len(chunks[1]) + 1, Len(candidates))

\* a GET /search without `escape` arrives and becomes search r in this step
Arrives(r) ==
    /\ runs[r].pc = "idle"
    /\ runs'[r].pc # "idle"
    /\ runs'[r].entry = "api"
    /\ "escape" \notin runs'[r].request.given

(***************************************************************************)
(* C20.  The response cache keeps a response for 5 minutes: a GET without  *)
(* `escape` whose URL was answered and stored less than 300 seconds        *)
(* earlier is answered with the stored body without running the handler    *)
(* (no worker is dispatched); once the entry has expired, the handler runs *)
(* again.                                                                  *)
(***************************************************************************)
C20_CacheKeepsFiveMinutes ==
    [][ \A r \in RunIds :
          Arrives(r)
          => LET entry == cache[runs'[r].request]
                 age == now - (entry.expires - CacheTtl)
             IN  /\ (entry.stored /\ age < 300)
                    => /\ runs'[r].pc = "done"
                       /\ runs'[r].response.via = "cache"
                       /\ runs'[r].response.body = entry.body
                       /\ runs'[r].workers = <<>>
                       /\ ~runs'[r].read
                       /\ requestCount' = requestCount
                 /\ (~entry.stored \/ age > 300)
                    => /\ runs'[r].response.via # "cache"
                       /\ requestCount' = requestCount + 1 ]_vars

\* a list stored at time 0 was served from the cache 299 seconds later
C20_Witness ==
    \E r \in RunIds :
        /\ runs[r].response.via = "cache"
        /\ runs[r].response.body.kind = "list"
        /\ runs[r].response.at = CacheTtl - 1
        /\ cache[runs[r].request].stored
        /\ cache[runs[r].request].expires = CacheTtl

\* a GET /search with `escape` arrives and becomes search r in this step
EscapeArrives(r) ==
    /\ runs[r].pc = "idle"
    /\ runs'[r].pc # "idle"
    /\ runs'[r].entry = "api"
    /\ "escape" \in runs'[r].request.given

(***************************************************************************)
(* C21.  A GET request that carries `escape` is never answered from the    *)
(* cache: the value cached for the request is deleted and the handler runs *)
(* and generates a fresh response.                                         *)
(***************************************************************************)
C21_EscapeBypassesCache ==
    [][ \A r \in RunIds :
          EscapeArrives(r)
          => LET key == runs'[r].request
             IN  /\ runs'[r].response.via # "cache"
                 /\ runs'[r].wrapped
                 /\ requestCount' = requestCount + 1
                 /\ runs'[r].pc = "waiting" => ~cache'[key].stored
                 /\ runs'[r].pc = "done"
                    => /\ runs'[r].response.via = "handler"
                       /\ runs'[r].response.at = now
                       /\ cache'[key] = [stored |-> TRUE, body |-> runs'[r].response.body,
                                         expires |-> now + CacheTtl] ]_vars

\* the same URL with `escape` was asked twice, the second time 299 seconds
\* after the first answer had been stored, and the handler answered both
C21_Witness ==
    \E r1, r2 \in RunIds :
        /\ r1 # r2
        /\ runs[r1].request = runs[r2].request
        /\ "escape" \in runs[r2].request.given
        /\ runs[r1].response.via = "handler"
        /\ runs[r1].response.body.kind = "list"
        /\ runs[r2].received = runs[r1].response.at + CacheTtl - 1
        /\ runs[r2].response.via = "handler"
        /\ runs[r2].response.body.kind = "list"

(***************************************************************************)
(* C22.  calculateThreshold(length) is non-decreasing in length and stays  *)
(* within [0.1, 0.8] for every length >= 1, and a length below 1 is        *)
(* treated like length 1: its threshold is 0.1, never NaN and never out of *)
(* the bounds.                                                             *)
(***************************************************************************)
C22_ThresholdMonotoneBounded ==
    call.name = "calculateThreshold"
    => /\ call.threshold \notin {NaN, NegativeInfinity}
       /\ ThresholdScale <= 10 * call.threshold
       /\ 10 * call.threshold <= 8 * ThresholdScale
       /\ \A shorter \in 0..call.length : calculateThreshold(shorter) <= call.threshold
       /\ call.length < 1
          => /\ call.threshold = calculateThreshold(1)
             /\ 10 * call.threshold = ThresholdScale

\* the threshold of the empty query: the logarithm is -Infinity, the result 0.1
C22_Witness ==
    /\ call.name = "calculateThreshold"
    /\ call.length = 0
    /\ MathLog(call.length) = NegativeInfinity
    /\ 10 * call.threshold = ThresholdScale

ShownFields == {"id", "similarity", "fuzzyScore", "languageSimilarity"}

(***************************************************************************)
(* C25.  In every entry point the merge concatenates the workers' outputs  *)
(* into one flat list of scored records before it sorts and truncates:     *)
(* each printed or returned result is one scored record of a worker, and   *)
(* for a limit >= 1 the list holds min(limit, total) records, at most the  *)
(* limit, taken from the records of all workers.                           *)
(***************************************************************************)
C25_MergeIsFlat ==
    \A r \in RunIds :
        (Computed(r) /\ runs[r].params.results >= 1)
        => LET list == runs[r].response.body.list
               merged == Flat(runs[r].all.values)
           IN  /\ \A k \in DOMAIN list :
                     \E i \in DOMAIN merged : \A f \in ShownFields : list[k][f] = merged[i][f]
               /\ Len(list) <= runs[r].params.results
               /\ Len(list) = Min(runs[r].params.results, Len(merged))

\* the request of search r has the parameter, and its text is not a number
NotANumber(r, name) ==
    /\ name \in runs[r].request.given
    /\ Number(runs[r].request[name]).nan

\* what the claim has the parameter be: the number given, or the default
Supplied(r, name, default) ==
    IF name \in runs[r].request.given THEN Number(runs[r].request[name]).value ELSE default

(***************************************************************************)
(* C26.  getParametersFromRequest applies the defaults (5 results, 8       *)
(* cores) only when r / c are absent from the request: a supplied value    *)
(* that is not a number is rejected with HTTP 400 and no search is         *)
(* dispatched, and a supplied numeric value is used as given.              *)
(***************************************************************************)
C26_DefaultsOnlyWhenAbsent ==
    \A r \in RunIds :
        (runs[r].entry = "api" /\ runs[r].pc # "idle" /\ runs[r].response.via # "cache"
            /\ "q" \in runs[r].request.given /\ runs[r].request.q # <<>>)
        => IF NotANumber(r, "r") \/ NotANumber(r, "c")
           THEN /\ runs[r].pc = "done"
                /\ runs[r].response.status = 400
                /\ ~runs[r].read
                /\ runs[r].workers = <<>>
           ELSE /\ runs[r].params.results = Supplied(r, "r", DEFAULT_RESULTS_LIMIT)
                /\ runs[r].params.cores = Supplied(r, "c", DEFAULT_WORKER_CORES_LIMIT)

\* every worker of search r has posted a result, raised an error or exited
AllWorkersFinished(r) ==
    \A i \in DOMAIN runs[r].workers : runs[r].workers[i].thread \in {"messaged", "errored", "exited"}

(***************************************************************************)
(* C27.  Every search request accepted by handleSearch is answered exactly *)
(* once: a request is never answered twice and its answer never replaced,  *)
(* a request that waits for its workers is answered in the end, and once   *)
(* every dispatched worker has posted a result, raised an error or exited  *)
(* the request gets its response, the result list or a 500.                *)
(***************************************************************************)
C27_AnsweredExactlyOnce ==
    /\ [](\A r \in RunIds : runs[r].response.sent <= 1)
    /\ [][\A r \in RunIds : runs[r].response.sent = 1 => runs'[r].response = runs[r].response]_vars
    /\ \A r \in 1..MaxRequests :
          (runs[r].pc = "waiting") ~> (runs[r].pc = "done" /\ runs[r].response.sent = 1)
    /\ \A r \in 1..MaxRequests :
          (runs[r].pc = "waiting" /\ AllWorkersFinished(r))
          ~> (/\ runs[r].pc = "done"
              /\ runs[r].response.sent = 1
              /\ \/ runs[r].response.status = 200 /\ runs[r].response.body.kind = "list"
                 \/ runs[r].response.status = 500)

\* a search of two workers was answered with its list, and both workers have exited
C27_Witness ==
    \E r \in RunIds :
        /\ runs[r].entry = "api"
        /\ runs[r].response.via = "handler"
        /\ runs[r].response.sent = 1
        /\ runs[r].response.status = 200
        /\ Len(runs[r].workers) = 2
        /\ \A i \in DOMAIN runs[r].workers : runs[r].workers[i].thread = "exited"

\* the two requests ask for the same search, `escape` apart
SameSearch(a, b) ==
    /\ a.given \ {"escape"} = b.given \ {"escape"}
    /\ <<a.q, a.r, a.c, a.d, a.s>> = <<b.q, b.r, b.c, b.d, b.s>>

(***************************************************************************)
(* C28.  After a request carrying `escape` for a search has completed, a   *)
(* later request for the same search without `escape` is not answered with *)
(* a response body that was cached before the escape request arrived: the  *)
(* escape request invalidates the entry the plain request is served from.  *)
(***************************************************************************)
C28_EscapeInvalidatesPlainEntry ==
    [][ \A r \in RunIds :
          (Arrives(r) /\ runs'[r].response.via = "cache")
          => \A e \in RunIds :
                (/\ runs[e].pc = "done"
                 /\ "escape" \in runs[e].request.given
                 /\ SameSearch(runs[e].request, runs'[r].request))
                => cache[runs'[r].request].expires - CacheTtl >= runs[e].received ]_vars

\* how many elements of the list are the record
CountOf(list, x) == Cardinality({k \in 1..Len(list) : list[k] = x})

(***************************************************************************)
(* C29.  In random sort mode, sliceAndSortResults with a limit >= 1 still  *)
(* returns exactly min(limit, total) records, each a distinct element of   *)
(* the merged list: no record is duplicated, lost from the pool before the *)
(* truncation or invented; only the order and the selection are random.    *)
(***************************************************************************)
C29_RandomKeepsRecords ==
    \A r \in RunIds :
        (Computed(r) /\ runs[r].params.sort = SORT_OPTIONS.random /\ runs[r].params.results >= 1)
        => LET list == Returned(r)
               merged == Flat(runs[r].all.values)
           IN  /\ Len(list) = Min(runs[r].params.results, Len(merged))
               /\ \A k \in DOMAIN list :
                     /\ \E i \in DOMAIN merged : merged[i] = list[k]
                     /\ CountOf(list, list[k]) <= CountOf(merged, list[k])
               /\ Len(list) = Len(merged) => \A i \in DOMAIN merged : CountOf(list, merged[i]) >= 1

\* a random search returned two of three records, in another order than the
\* descending similarity that normal gives
C29_Witness ==
    \E r \in RunIds :
        /\ Computed(r)
        /\ runs[r].params.sort = SORT_OPTIONS.random
        /\ runs[r].params.results = 2
        /\ Len(Flat(runs[r].all.values)) = 3
        /\ Len(Returned(r)) = 2
        /\ Returned(r)[1].similarity # NaN
        /\ Returned(r)[2].similarity # NaN
        /\ Returned(r)[1].similarity < Returned(r)[2].similarity

====
